---- MODULE Spec2Model ----
(***************************************************************************)
(* GA4 -> Elasticsearch export: the fleet exporter (ga4_export_all.py) and *)
(* the single-property exporter (ga4_export.py) as one state machine.      *)
(* Python strings are sequences of one-character strings, so that          *)
(* str.replace, str.lower, f-string joins and int()/float() are computed.  *)
(***************************************************************************)
EXTENDS Integers, Sequences, FiniteSets, TLC

VARIABLES
    mode,              \* "fleet" (ga4_export_all.py) or "single" (ga4_export.py)
    config,            \* GAConfig: the environment-derived settings
    pc,                \* position of main()
    run,               \* number of the current invocation of the script
    runs,              \* invocations the scheduler will make
    visible,           \* Google Analytics: properties visible to the principal
    rows_served,       \* Google Analytics: report rows served in this run
    exit_code,         \* -1 while running, 0 normal end, 1 after exit(1)
    cause,             \* what made main() call exit(1)
    pinged,            \* es.ping() has returned True in this run
    streams,           \* Elasticsearch: the destinations that exist
    docs,              \* Elasticsearch: the stored documents [index, id, doc]
    create_calls,      \* Elasticsearch: the create_data_stream requests it has answered
    ga_data,           \* Google Analytics: the report each property has served
    clock,             \* datetime.now(): ticks between runs
    total_properties,  \* main(): properties processed so far
    total_documents,   \* main(): sum of the returned doc_count values
    accounts_seen,     \* 1 once the pager has yielded an account summary, else 0
    props_left,        \* property summaries left in the current account summary
    property_id,       \* export_property_data: property_id (0: none)
    datastream_name,   \* export_property_data: datastream_name
    request,           \* export_property_data / main: the RunReportRequest built
    response,          \* export_property_data / main: response of run_report
    row_i,             \* index of the row the for loop is at
    doc_count,         \* export_property_data: doc_count
    steps,             \* store/API calls made for the current property
    results,           \* per processed property: what export_property_data returned
    summary,           \* the printed export summary
    before,            \* the store as the previous run left it: [ok, keys]
    args,              \* arguments of the pure function under test
    ret                \* its return value

vars == <<mode, config, pc, run, runs, visible, rows_served, exit_code, cause, pinged, streams, docs,
          create_calls, ga_data,
          clock, total_properties, total_documents, accounts_seen, props_left, property_id,
          datastream_name, request, response, row_i, doc_count, steps, results, summary,
          before, args, ret>>

(***************************************************************************)
(* Bounds of the model.                                                    *)
(***************************************************************************)
MaxProps == 2
MaxRows == 2
MaxRuns == 2
MaxNameLen == 3

(***************************************************************************)
(* Strings.                                                                *)
(***************************************************************************)
RECURSIVE Join(_)
Join(parts) ==
    IF parts = <<>> THEN <<>> ELSE Head(parts) \o Join(Tail(parts))

\* str.lower(), on the characters the inputs use
LowerChar(c) ==
    CASE c = "M" -> "m"
      [] c = "S" -> "s"
      [] c = "I" -> "i"
      [] OTHER -> c

lower(s) == [i \in 1..Len(s) |-> LowerChar(s[i])]

\* str.replace(old, new) for a one-character old
replace(s, old, new) == [i \in 1..Len(s) |-> IF s[i] = old THEN new ELSE s[i]]

Digits == {"0", "1", "2", "3", "4", "5", "6", "7", "8", "9"}

DigitVal(c) ==
    CASE c = "0" -> 0 [] c = "1" -> 1 [] c = "2" -> 2 [] c = "3" -> 3
      [] c = "4" -> 4 [] c = "5" -> 5 [] c = "6" -> 6 [] c = "7" -> 7
      [] c = "8" -> 8 [] c = "9" -> 9

DigitChar(n) ==
    CASE n = 0 -> "0" [] n = 1 -> "1" [] n = 2 -> "2" [] n = 3 -> "3"
      [] n = 4 -> "4" [] n = 5 -> "5" [] n = 6 -> "6" [] n = 7 -> "7"
      [] n = 8 -> "8" [] n = 9 -> "9"

\* str(n) of a natural number
RECURSIVE str(_)
str(n) == IF n < 10 THEN <<DigitChar(n)>> ELSE str(n \div 10) \o <<DigitChar(n % 10)>>

RECURSIVE DecimalValue(_)
DecimalValue(s) ==
    IF s = <<>> THEN 0 ELSE 10 * DecimalValue(SubSeq(s, 1, Len(s) - 1)) + DigitVal(s[Len(s)])

AllDigits(s) == s # <<>> /\ \A i \in 1..Len(s) : s[i] \in Digits

(***************************************************************************)
(* Metric coercion: int(value or 0) and float(value or 0).  A value is     *)
(* [exc, kind, v, scale]: exc is "" or the exception raised.               *)
(***************************************************************************)
Number(kind, v, scale) == [exc |-> "", kind |-> kind, v |-> v, scale |-> scale]
Raised(e) == [exc |-> e, kind |-> "none", v |-> 0, scale |-> 0]

\* int(s) of a str: decimal digits, else ValueError
int_str(s) == IF AllDigits(s) THEN Number("int", DecimalValue(s), 0) ELSE Raised("ValueError")

\* float(s) of a str: digits with at most one ".", else ValueError
float_str(s) ==
    LET dots == {i \in 1..Len(s) : s[i] = "."}
        nodot == SelectSeq(s, LAMBDA c : c # ".")
    IN  IF Cardinality(dots) <= 1 /\ AllDigits(nodot)
        THEN Number("float", DecimalValue(nodot),
                    IF dots = {} THEN 0 ELSE Len(s) - (CHOOSE i \in dots : TRUE))
        ELSE Raised("ValueError")

\* int(value or 0): the missing "or 0"
int_no_default(value) == int_str(value)

\* int(value or 0)
int_or_0(value) == IF value = <<>> THEN Number("int", 0, 0) ELSE int_str(value)

\* float(value or 0)
float_or_0(value) == IF value = <<>> THEN Number("float", 0, 0) ELSE float_str(value)

(***************************************************************************)
(* Destination naming (export_property_data, first statements).            *)
(***************************************************************************)
Prefix == <<"g", "a", "4", "m", "e", "t", "r", "i", "c", "s", "-">>

\* property_name.lower().replace(' ', '-').replace('_', '-').replace('.', '-')
sanitized_name(property_name) ==
    replace(replace(replace(lower(property_name), " ", "-"), "_", "-"), ".", "-")

\* f"ga4metrics-{sanitized_name}-{property_id}"
DatastreamName(property_name, pid) ==
    Prefix \o sanitized_name(property_name) \o <<"-">> \o pid

(***************************************************************************)
(* Document identity.  hashlib.md5(...).hexdigest() is kept symbolic: the  *)
(* digest of a string is the tagged string, so equal digests mean equal    *)
(* key strings.                                                            *)
(***************************************************************************)
md5_hexdigest(s) == <<"md5", s>>

\* fleet: f"{property_id}-{date}-{pagePath}-{sessionSource}-{sessionMedium}-{country}-{city}"
doc_id_string(pid, date, pagePath, sessionSource, sessionMedium, country, city) ==
    Join(<<pid, <<"-">>, date, <<"-">>, pagePath, <<"-">>, sessionSource, <<"-">>,
           sessionMedium, <<"-">>, country, <<"-">>, city>>)

\* the key string with the ingestion timestamp mixed in
DocIdWithTimestamp(pid, d) ==
    md5_hexdigest(doc_id_string(pid, d.date, d.pagePath, d.sessionSource,
                                d.sessionMedium, d.country, d.city) \o d["@timestamp"])

\* fleet: doc_id of a mapped document
DocId(pid, d) ==
    md5_hexdigest(doc_id_string(pid, d.date, d.pagePath, d.sessionSource,
                                d.sessionMedium, d.country, d.city))

\* dict.get(key, '')
Get(d, key) == IF key \in DOMAIN d THEN d[key] ELSE <<>>

\* single: f"{config.property_id}-{doc.get('date', '')}-{doc.get('pagePath', '')}"
SingleDocId(pid, d) ==
    md5_hexdigest(Join(<<pid, <<"-">>, Get(d, "date"), <<"-">>, Get(d, "pagePath")>>))

(***************************************************************************)
(* Document mapping.  A row is [dimension_values, metric_values], both     *)
(* sequences of strings.  A mapping returns [exc, doc].                    *)
(***************************************************************************)
Mapped(d) == [exc |-> "", doc |-> d]
MapFailed(e) == [exc |-> e, doc |-> <<>>]

NumDimensions == 7
NumMetrics == 8

\* the metric columns of the fleet report and the coercion each one gets
FleetCoerce(j, value) == IF j = 4 THEN float_or_0(value) ELSE int_or_0(value)

\* fleet: the dict literal of export_property_data, evaluated left to right
FleetDoc(pid, property_name, row, now) ==
    LET dv == row.dimension_values
        mv == row.metric_values
        m == [j \in 1..NumMetrics |->
                 IF j <= Len(mv) THEN FleetCoerce(j, mv[j]) ELSE Raised("IndexError")]
        bad == {j \in 1..NumMetrics : m[j].exc # ""}
    IN  IF Len(dv) < NumDimensions THEN MapFailed("IndexError")
        ELSE IF bad # {} THEN MapFailed(m[CHOOSE j \in bad : \A k \in bad : j <= k].exc)
        ELSE Mapped([property_id |-> pid,
                     property_name |-> property_name,
                     pageTitle |-> dv[1],
                     pagePath |-> dv[2],
                     sessionSource |-> dv[3],
                     sessionMedium |-> dv[4],
                     country |-> dv[5],
                     city |-> dv[6],
                     date |-> dv[7],
                     screenPageViews |-> m[1],
                     scrolledUsers |-> m[2],
                     activeUsers |-> m[3],
                     userEngagementDuration |-> m[4],
                     eventCount |-> m[5],
                     sessions |-> m[6],
                     totalUsers |-> m[7],
                     engagedSessions |-> m[8]]
                    @@ ("@timestamp" :> now))

Min(a, b) == IF a < b THEN a ELSE b

\* the position whose value a dict comprehension keeps for key n: the last one
LastAt(names, n, len) == CHOOSE i \in 1..len : names[i] = n /\ \A k \in (i + 1)..len : names[k] # n

\* single: the two dict comprehensions over zip(headers, values), then '@timestamp'
SingleDoc(resp, row, now) ==
    LET dh == resp.dimension_headers
        mh == resp.metric_headers
        nd == Min(Len(dh), Len(row.dimension_values))
        nm == Min(Len(mh), Len(row.metric_values))
        m == [j \in 1..nm |-> float_or_0(row.metric_values[j])]
        bad == {j \in 1..nm : m[j].exc # ""}
        dnames == {dh[i] : i \in 1..nd}
        mnames == {mh[j] : j \in 1..nm}
    IN  IF bad # {} THEN MapFailed("ValueError")
        ELSE Mapped([n \in dnames \cup mnames \cup {"@timestamp"} |->
                        IF n = "@timestamp" THEN now
                        ELSE IF n \in mnames THEN m[LastAt(mh, n, nm)]
                        ELSE row.dimension_values[LastAt(dh, n, nd)]])

(***************************************************************************)
(* Inputs: the configurations, the discovered properties and the reports   *)
(* Google Analytics serves.                                                *)
(***************************************************************************)
Config(ids, path, file, host, days) ==
    [id_set |-> ids, credentials_path_set |-> path, credentials_file_exists |-> file,
     elasticsearch_host_set |-> host, days_to_pull |-> days]

DefaultDays == 30

Configs ==
    { Config(TRUE, TRUE, TRUE, TRUE, DefaultDays),
      Config(TRUE, TRUE, TRUE, TRUE, 0),
      Config(FALSE, TRUE, TRUE, TRUE, DefaultDays),
      Config(TRUE, FALSE, FALSE, TRUE, DefaultDays),
      Config(TRUE, TRUE, FALSE, TRUE, DefaultDays),
      Config(TRUE, TRUE, TRUE, FALSE, DefaultDays) }

\* GAConfig.validate_ga_config: raises ValueError / FileNotFoundError
validate_ga_config(c) ==
    c.id_set /\ c.credentials_path_set /\ c.credentials_file_exists

\* GAConfig.validate_elasticsearch_config: raises ValueError
validate_elasticsearch_config(c) == c.elasticsearch_host_set

\* the k-th discovered property: prop_summary.property.split('/')[-1] and display_name
PropertyId(k) == str(k)
DisplayName(k) ==
    IF k % 2 = 1 THEN <<"M", "y", " ", "S", "i", "t", "e">>
    ELSE <<"s", "h", "o", "p", ".", "i", "o">>

\* config.property_id of the single-property exporter
ConfigPropertyId == <<"9">>

Date == <<"2", "0", "2", "4", "0", "1", "0", "1">>

FleetRow(title, path, views) ==
    [dimension_values |-> <<title, path, <<"g">>, <<"o">>, <<"u", "s">>, <<"n", "y">>, Date>>,
     metric_values |-> <<views, <<"1">>, <<"1">>, <<"1", ".", "5">>, <<"3">>, <<"1">>,
                         <<"1">>, <<"1">>>>]

RowA == FleetRow(<<"T", "1">>, <<"/", "a">>, <<"4", "2">>)
RowB == FleetRow(<<"T", "1">>, <<"/", "b">>, <<>>)
RowT == FleetRow(<<"T", "2">>, <<"/", "a">>, <<"7">>)
RowShort ==
    [dimension_values |-> <<<<"T", "1">>, <<"/", "c">>, <<"g">>, <<"o">>, <<"u", "s">>, Date>>,
     metric_values |-> RowA.metric_values]

FleetRows == {RowA, RowB, RowT, RowShort}

SingleRow(path, views, sessions) ==
    [dimension_values |-> <<Date, path>>, metric_values |-> <<views, sessions>>]

SingleRowA == SingleRow(<<"/", "h">>, <<"4", "2">>, <<>>)
SingleRowB == SingleRow(<<"/", "b">>, <<"1">>, <<"2">>)
SingleRowShort == [dimension_values |-> <<Date>>, metric_values |-> <<<<"1">>, <<"2">>>>]

SingleRows == {SingleRowA, SingleRowB, SingleRowShort}

SeqsUpTo(S, n) == UNION {[1..k -> S] : k \in 0..n}

\* the RunReportResponse of a report: headers as requested, and the rows
Response(dims, mets, rows) ==
    [dimension_headers |-> dims, metric_headers |-> mets, rows |-> rows]

NoResponse == Response(<<>>, <<>>, <<>>)

FleetDimensions ==
    <<"pageTitle", "pagePath", "sessionSource", "sessionMedium", "country", "city", "date">>
FleetMetrics ==
    <<"screenPageViews", "scrolledUsers", "activeUsers", "userEngagementDuration",
      "eventCount", "sessions", "totalUsers", "engagedSessions">>
SingleDimensions == <<"date", "pagePath">>
SingleMetrics == <<"screenPageViews", "sessions">>

Responses(m) ==
    IF m = "fleet"
    THEN {Response(FleetDimensions, FleetMetrics, r) : r \in SeqsUpTo(FleetRows, MaxRows)}
    ELSE {Response(SingleDimensions, SingleMetrics, r) : r \in SeqsUpTo(SingleRows, MaxRows)}

\* datetime.today(), as a day ordinal; strftime("%Y-%m-%d") of a date writes
\* the ordinal in decimal
Today == 738886
strftime(day) == str(day)

\* fleet: RunReportRequest(property=f"properties/{property_id}", ...,
\* date_ranges=[DateRange(start_date=f"{config.days_to_pull}daysAgo", end_date="today")])
FleetRequest(pid, c) ==
    [property |-> pid,
     dimensions |-> FleetDimensions,
     metrics |-> FleetMetrics,
     start_date |-> str(c.days_to_pull) \o <<"d", "a", "y", "s", "A", "g", "o">>,
     end_date |-> <<"t", "o", "d", "a", "y">>]

\* single: end_date = datetime.today(); start_date = end_date - timedelta(days=...)
SingleRequest(pid, c) ==
    [property |-> pid,
     dimensions |-> SingleDimensions,
     metrics |-> SingleMetrics,
     start_date |-> strftime(Today - c.days_to_pull),
     end_date |-> strftime(Today)]

\* datetime.now(timezone.utc).isoformat()
Now(t) == <<"T">> \o str(t)

NoName == <<>>

(***************************************************************************)
(* Initial state: the script is started on an empty store.                 *)
(***************************************************************************)
Locals ==
    /\ total_properties = 0
    /\ total_documents = 0
    /\ accounts_seen = 0
    /\ props_left = 0
    /\ property_id = 0
    /\ datastream_name = NoName
    /\ request = <<>>
    /\ response = NoResponse
    /\ row_i = 0
    /\ doc_count = 0
    /\ steps = <<>>
    /\ results = <<>>
    /\ summary = <<>>
    /\ pinged = FALSE
    /\ rows_served = 0
    /\ exit_code = -1
    /\ cause = ""

\* the script is scheduled max_runs times at most, on an account tree of
\* max_visible properties at most
Start(max_runs, max_visible) ==
    /\ mode \in {"fleet", "single"}
    /\ config \in Configs
    /\ pc = "validate_config"
    /\ run = 1
    /\ runs \in 1..max_runs
    /\ visible \in 0..(IF mode = "fleet" THEN max_visible ELSE 0)
    /\ clock = 1
    /\ streams = {}
    /\ docs = {}
    /\ create_calls = <<>>
    /\ ga_data = [k \in 0..MaxProps |-> <<>>]
    /\ before = [ok |-> FALSE, keys |-> {}]
    /\ Locals
    /\ args = <<>>
    /\ ret = <<>>

\* one invocation of either script
Init == Start(1, MaxProps)

\* repeated invocations (a scheduled feed) over one property
RerunInit == Start(MaxRuns, 1)

(***************************************************************************)
(* main(), both scripts: configuration, authentication, store connection.  *)
(***************************************************************************)
fixed == <<mode, config, run, runs, visible, clock, before, args, ret>>
store == <<streams, docs, create_calls>>
loop == <<total_properties, total_documents, accounts_seen, props_left>>
export == <<property_id, datastream_name, request, response, row_i, doc_count, steps>>

\* exit(1)
Exit(why) ==
    /\ pc' = "exit"
    /\ exit_code' = 1
    /\ cause' = why

Running == UNCHANGED <<exit_code, cause>>

\* validate_config(): exit(1) on ValueError / FileNotFoundError
validate_config ==
    /\ pc = "validate_config"
    /\ IF validate_ga_config(config) /\ validate_elasticsearch_config(config)
       THEN pc' = "authenticate" /\ Running
       ELSE Exit("config")
    /\ UNCHANGED <<rows_served, fixed, store, loop, export, ga_data, results, summary, pinged>>

\* config.get_credentials() and the client constructors, in try/except -> exit(1)
authenticate ==
    /\ pc = "authenticate"
    /\ \E ok \in BOOLEAN :
          IF ok
          THEN pc' = (IF mode = "fleet" THEN "connect" ELSE "fetch") /\ Running
          ELSE Exit("authentication")
    /\ UNCHANGED <<rows_served, fixed, store, loop, export, ga_data, results, summary, pinged>>

\* main() returns: the process ends with status 0
Finish ==
    /\ pc' = "done"
    /\ exit_code' = 0
    /\ UNCHANGED cause

\* Elasticsearch(...); if not es.ping(): raise; except -> exit(1).  In the
\* single-property script the loop over response.rows follows.
connect_elasticsearch ==
    /\ pc = "connect"
    /\ \E ping \in BOOLEAN :
          IF ping
          THEN /\ pinged' = TRUE
               /\ IF mode = "fleet" THEN pc' = "list_account_summaries" /\ Running
                  ELSE IF response.rows = <<>> THEN Finish
                  ELSE pc' = "rows" /\ Running
               /\ row_i' = (IF mode = "single" /\ response.rows # <<>> THEN 1 ELSE row_i)
          ELSE /\ Exit("elasticsearch")
               /\ UNCHANGED <<pinged, row_i>>
    /\ UNCHANGED <<rows_served, fixed, store, loop, property_id, datastream_name, request,
                   response, doc_count, steps, ga_data, results, summary>>

(***************************************************************************)
(* Fleet main(): discovery and the loop over the property summaries.       *)
(***************************************************************************)
\* admin_client.list_account_summaries(): the first page is requested here
list_account_summaries ==
    /\ pc = "list_account_summaries"
    /\ \E ok \in BOOLEAN :
          IF ok
          THEN /\ pc' = "accounts"
               /\ total_properties' = 0
               /\ total_documents' = 0
               /\ Running
          ELSE /\ Exit("discovery")
               /\ UNCHANGED <<total_properties, total_documents>>
    /\ UNCHANGED <<fixed, store, accounts_seen, props_left, export, ga_data, results,
                   summary, pinged, rows_served>>

\* for summary in account_summaries: the pager yields the next account summary
\* (with some or all of the properties not yet listed; the first account may
\* have none), is exhausted, or raises when it requests a further page
next_account_summary ==
    /\ pc = "accounts"
    /\ \/ /\ \E n \in 0..(visible - total_properties) :
                /\ n = 0 => accounts_seen = 0
                /\ props_left' = n
                /\ accounts_seen' = 1
                /\ pc' = "properties"
                /\ Running
       \/ /\ total_properties = visible
          /\ pc' = "summary"
          /\ Running
          /\ UNCHANGED <<accounts_seen, props_left>>
       \/ /\ accounts_seen > 0
          /\ total_properties < visible
          /\ Exit("discovery")
          /\ UNCHANGED <<accounts_seen, props_left>>
    /\ UNCHANGED <<fixed, store, total_properties, total_documents, export, ga_data,
                   results, summary, pinged, rows_served>>

\* export_property_data starts with the report request
EntryFetch == "fetch"

\* export_property_data: the first call after datastream_name is computed is
\* create_datastream_if_not_exists
EntryStep == "provision"

\* for prop_summary in summary.property_summaries: ... export_property_data(...) up to
\* its first call: sanitized_name and datastream_name
next_property_summary ==
    /\ pc = "properties"
    /\ IF props_left > 0
       THEN /\ total_properties' = total_properties + 1
            /\ property_id' = total_properties + 1
            /\ datastream_name' = DatastreamName(DisplayName(total_properties + 1),
                                                 PropertyId(total_properties + 1))
            /\ steps' = <<>>
            /\ request' = <<>>
            /\ response' = NoResponse
            /\ pc' = EntryStep
       ELSE /\ pc' = "accounts"
            /\ UNCHANGED <<total_properties, property_id, datastream_name, steps, request,
                           response>>
    /\ Running
    /\ UNCHANGED <<rows_served, fixed, store, total_documents, accounts_seen, props_left,
                   row_i, doc_count, ga_data, results, summary, pinged>>

(***************************************************************************)
(* export_property_data(ga_client, es, property_id, property_name).        *)
(***************************************************************************)
\* what the function returned for a property, and why; written is the number
\* of es.index calls that returned during the call
Result(k, count, failed_step) ==
    [property |-> k, doc_count |-> count, failed |-> failed_step # "", step |-> failed_step,
     written |-> Cardinality({i \in 1..Len(steps') : steps'[i] = "index"})]

\* total_documents = doc_count
Overwrite(total, count) == count

\* total_documents += doc_count
Accumulate(total, count) == total + count

\* return <count>; back in main(): total_documents += doc_count
Return(count, failed_step) ==
    /\ total_documents' = Accumulate(total_documents, count)
    /\ results' = Append(results, Result(property_id, count, failed_step))
    /\ props_left' = props_left - 1
    /\ pc' = "properties"
    /\ row_i' = 0
    /\ doc_count' = 0

\* export_property_data without its try/except: the exception reaches the
\* except clause of main(), which calls exit(1)
ExceptPropagates(step) ==
    /\ Exit("export")
    /\ UNCHANGED <<total_documents, results, props_left, row_i, doc_count>>

\* except Exception: ... return doc_count
ExceptReturnsCount(step) == Return(doc_count, step) /\ Running

\* export_property_data: except Exception as e: logger.error(...); return 0
ExceptReturn0(step) == Return(0, step) /\ Running

\* the loop of main() moves on to the next property summary while the export of
\* this one is still to fetch and write
Dispatch ==
    /\ pc' = "properties"
    /\ props_left' = props_left - 1
    /\ UNCHANGED <<total_documents, results, request, response, row_i, doc_count>>

\* the function goes on to the report request
Proceed ==
    /\ pc' = "fetch"
    /\ UNCHANGED <<total_documents, results, props_left, request, response, row_i, doc_count>>

\* create_datastream_if_not_exists without its try/except: the exception reaches
\* the except clause of export_property_data
ProvisionRaises(outcome) ==
    IF outcome = "ok" THEN Proceed ELSE Return(0, "provision") /\ UNCHANGED <<request, response>>

\* create_datastream_if_not_exists: except Exception -> logger.warning(...), pass
ProvisionReturns(outcome) == Proceed

\* the existence check is skipped: the destination is taken to be missing
ExistsIgnored(name) == FALSE

\* es.indices.exists(index=datastream_name), when it returns
Exists(name) == name \in streams

\* a create_data_stream request as Elasticsearch answers it: the stream is
\* created, or the name is rejected because it exists
CreateCall(name, ok) == [name |-> name, existed |-> name \in streams, ok |-> ok]

\* create_datastream_if_not_exists(es, datastream_name): es.indices.exists, then
\* es.indices.create_data_stream when it does not exist; either call may raise
\* (create_data_stream raises for a name that exists, or before the store has
\* answered)
create_datastream_if_not_exists ==
    /\ pc = "provision"
    /\ \E outcome \in {"ok", "exists_raises", "create_raises"} :
          LET issued == outcome # "exists_raises" /\ ~Exists(datastream_name)
          IN  /\ outcome = "create_raises" => issued
              /\ (outcome = "ok" /\ issued) => datastream_name \notin streams
              /\ create_calls' = IF issued /\ (outcome = "ok" \/ datastream_name \in streams)
                                 THEN Append(create_calls,
                                             CreateCall(datastream_name, outcome = "ok"))
                                 ELSE create_calls
              /\ streams' = (IF outcome = "ok" /\ issued
                             THEN streams \cup {datastream_name} ELSE streams)
              /\ steps' = Append(steps, IF outcome = "ok" THEN "provision" ELSE "provision!")
              /\ ProvisionReturns(outcome)
    /\ Running
    /\ UNCHANGED <<rows_served, fixed, docs, total_properties, accounts_seen, property_id,
                   datastream_name, ga_data, summary, pinged>>

\* the report Google Analytics serves for property k: chosen at its first
\* request and the same in later runs
Served(k, resp) ==
    IF ga_data[k] = <<>>
    THEN Len(resp.rows) <= MaxRows - rows_served
    ELSE resp = ga_data[k][1]

\* Google Analytics after serving resp for property k (what a run serves is
\* remembered while a later run is scheduled)
Serve(k, resp) ==
    /\ ga_data' = IF run < runs THEN [ga_data EXCEPT ![k] = <<resp>>] ELSE ga_data
    /\ rows_served' = rows_served + Len(resp.rows)

\* RunReportRequest(...); response = ga_client.run_report(request);
\* if len(response.rows) == 0: return 0
run_report ==
    /\ pc = "fetch"
    /\ mode = "fleet"
    /\ request' = <<FleetRequest(PropertyId(property_id), config)>>
    /\ \/ /\ steps' = Append(steps, "fetch!")
          /\ ExceptReturn0("fetch")
          /\ UNCHANGED <<ga_data, rows_served, response>>
       \/ \E resp \in Responses(mode) :
             /\ Served(property_id, resp)
             /\ Serve(property_id, resp)
             /\ steps' = Append(steps, "fetch")
             /\ response' = resp
             /\ Running
             /\ IF resp.rows = <<>>
                THEN Return(0, "")
                ELSE /\ row_i' = 1
                     /\ doc_count' = 0
                     /\ pc' = "rows"
                     /\ UNCHANGED <<total_documents, results, props_left>>
    /\ UNCHANGED <<fixed, store, total_properties, accounts_seen, property_id,
                   datastream_name, summary, pinged>>

\* the loop body without its doc_count += 1
NotCounted(n) == n

\* doc_count += 1
Counted(n) == n + 1

\* es.index(index=..., document=doc, id=doc_id): an upsert keyed by id
Index(index, doc, id) ==
    {d \in docs : ~(d.index = index /\ d.id = id)}
        \cup {[index |-> index, id |-> id, doc |-> doc]}

\* one iteration of "for row in response.rows": build doc, doc_id, es.index;
\* after the last row: return doc_count; any exception: return 0
index_row ==
    /\ pc = "rows"
    /\ mode = "fleet"
    /\ LET m == FleetDoc(PropertyId(property_id), DisplayName(property_id),
                         response.rows[row_i], Now(clock))
       IN  IF m.exc # ""
           THEN /\ steps' = Append(steps, "map!")
                /\ ExceptReturn0("map")
                /\ UNCHANGED store
           ELSE \/ /\ steps' = Append(steps, "index!")
                   /\ ExceptReturn0("write")
                   /\ UNCHANGED store
                \/ /\ docs' = Index(datastream_name, m.doc,
                                    DocId(PropertyId(property_id), m.doc))
                   /\ streams' = streams \cup {datastream_name}
                   /\ UNCHANGED create_calls
                   /\ steps' = Append(steps, "index")
                   /\ Running
                   /\ IF row_i = Len(response.rows)
                      THEN Return(Counted(doc_count), "")
                      ELSE /\ row_i' = row_i + 1
                           /\ doc_count' = Counted(doc_count)
                           /\ UNCHANGED <<total_documents, results, props_left, pc>>
    /\ UNCHANGED <<rows_served, fixed, total_properties, accounts_seen, property_id,
                   datastream_name, request, response, ga_data, summary, pinged>>

\* the export summary, printed after the loops
print_summary ==
    /\ pc = "summary"
    /\ summary' = <<[total_properties |-> total_properties,
                     total_documents |-> total_documents,
                     days_to_pull |-> config.days_to_pull]>>
    /\ pc' = "done"
    /\ exit_code' = 0
    /\ UNCHANGED <<rows_served, fixed, store, loop, export, ga_data, results, pinged, cause>>

(***************************************************************************)
(* Single-property main() (ga4_export.py).                                 *)
(***************************************************************************)
SingleIndex == <<"g", "a", "4", "-", "d", "a", "t", "a">>

\* RunReportRequest(...); response = ga_client.run_report(request); except -> exit(1)
run_report_single ==
    /\ pc = "fetch"
    /\ mode = "single"
    /\ request' = <<SingleRequest(ConfigPropertyId, config)>>
    /\ \/ /\ Exit("fetch")
          /\ steps' = Append(steps, "fetch!")
          /\ UNCHANGED <<response, ga_data, rows_served>>
       \/ \E resp \in Responses(mode) :
             /\ Served(0, resp)
             /\ Serve(0, resp)
             /\ response' = resp
             /\ steps' = Append(steps, "fetch")
             /\ pc' = "connect"
             /\ Running
    /\ UNCHANGED <<fixed, store, loop, property_id, datastream_name, row_i, doc_count,
                   results, summary, pinged>>

\* one iteration of "for row in response.rows" of the single-property script;
\* any exception: exit(1)
index_row_single ==
    /\ pc = "rows"
    /\ mode = "single"
    /\ LET m == SingleDoc(response, response.rows[row_i], Now(clock))
       IN  IF m.exc # ""
           THEN /\ Exit("send")
                /\ steps' = Append(steps, "map!")
                /\ UNCHANGED <<store, row_i>>
           ELSE \/ /\ Exit("send")
                   /\ steps' = Append(steps, "index!")
                   /\ UNCHANGED <<store, row_i>>
                \/ /\ docs' = Index(SingleIndex, m.doc, SingleDocId(ConfigPropertyId, m.doc))
                   /\ streams' = streams \cup {SingleIndex}
                   /\ UNCHANGED create_calls
                   /\ steps' = Append(steps, "index")
                   /\ IF row_i = Len(response.rows)
                      THEN Finish /\ UNCHANGED row_i
                      ELSE row_i' = row_i + 1 /\ UNCHANGED pc /\ Running
    /\ UNCHANGED <<rows_served, fixed, loop, property_id, datastream_name, request, response,
                   doc_count, ga_data, results, summary, pinged>>

(***************************************************************************)
(* The script is started again (a scheduled feed) on the store it left.    *)
(***************************************************************************)
\* the identities of the stored documents
Keys == {<<d.index, d.id>> : d \in docs}

\* the run ended normally and no property failed
RunSucceeded ==
    /\ pc = "done"
    /\ \A k \in 1..Len(results) : ~results[k].failed

rerun ==
    /\ pc \in {"done", "exit"}
    /\ run < runs
    /\ run' = run + 1
    /\ clock' = clock + 1
    /\ pc' = "validate_config"
    /\ total_properties' = 0
    /\ total_documents' = 0
    /\ accounts_seen' = 0
    /\ props_left' = 0
    /\ property_id' = 0
    /\ datastream_name' = NoName
    /\ request' = <<>>
    /\ response' = NoResponse
    /\ row_i' = 0
    /\ doc_count' = 0
    /\ steps' = <<>>
    /\ results' = <<>>
    /\ summary' = <<>>
    /\ pinged' = FALSE
    /\ rows_served' = 0
    /\ exit_code' = -1
    /\ cause' = ""
    /\ before' = [ok |-> RunSucceeded, keys |-> Keys]
    /\ UNCHANGED <<mode, config, runs, visible, streams, docs, create_calls, ga_data, args, ret>>

Next ==
    \/ validate_config
    \/ authenticate
    \/ connect_elasticsearch
    \/ list_account_summaries
    \/ next_account_summary
    \/ next_property_summary
    \/ create_datastream_if_not_exists
    \/ run_report
    \/ index_row
    \/ print_summary
    \/ run_report_single
    \/ index_row_single

Spec == Init /\ [][Next]_vars

\* a run ends: every step of main() that can be taken is eventually taken
FairSpec == Init /\ [][Next]_vars /\ WF_vars(Next)

RerunNext ==
    \/ Next
    \/ rerun

RerunSpec == RerunInit /\ [][RerunNext]_vars

(***************************************************************************)
(* The pure functions of the export, applied to inputs drawn from bounded  *)
(* sets: destination naming, document identity, document mapping.          *)
(***************************************************************************)
NameChars == {"M", "y", " ", ",", ".", "_", "1"}

\* "My Site, Inc."
MySiteInc == <<"M", "y", " ", "S", "i", "t", "e", ",", " ", "I", "n", "c", ".">>

\* display names: they start with a letter or a digit
PropertyNames ==
    {n \in SeqsUpTo(NameChars, MaxNameLen) : n # <<>> /\ n[1] \in {"M", "y", "1"}}
        \cup {MySiteInc}

PropertyIds == {<<"1", "2", "3", "4", "5", "6">>, <<"7">>}

KeyValues == {<<"a">>, <<"a", "-", "a">>}

Date2 == <<"2", "0", "2", "4", "0", "1", "0", "2">>

\* the key material of a fleet document
KeyMaterial ==
    [property_id : {<<"1">>, <<"2">>}, date : {Date, Date2}, pagePath : KeyValues,
     sessionSource : KeyValues, sessionMedium : KeyValues, country : KeyValues,
     city : KeyValues]

MetricValues == {<<>>, <<"4", "2">>, <<"1", ".", "5">>}

MapperRows ==
    {[flow |-> "fleet",
      row |-> [dimension_values |-> RowA.dimension_values, metric_values |-> mv]] :
        mv \in [1..NumMetrics -> MetricValues]}
    \cup
    {[flow |-> "single",
      row |-> [dimension_values |-> SingleRowA.dimension_values, metric_values |-> mv]] :
        mv \in [1..Len(SingleMetrics) -> MetricValues]}

PureInit ==
    /\ mode = "fleet"
    /\ config = Config(TRUE, TRUE, TRUE, TRUE, DefaultDays)
    /\ pc = "call"
    /\ run = 1
    /\ runs = 1
    /\ visible = 0
    /\ clock = 1
    /\ streams = {}
    /\ docs = {}
    /\ create_calls = <<>>
    /\ ga_data = [k \in 0..MaxProps |-> <<>>]
    /\ before = [ok |-> FALSE, keys |-> {}]
    /\ Locals
    /\ ret = <<>>
    /\ \/ args \in [fn : {"datastream_name"}, property_name : PropertyNames,
                    property_id : PropertyIds]
       \/ args \in [fn : {"doc_id"}, a : KeyMaterial, b : KeyMaterial]
       \/ args \in [fn : {"doc"}, input : MapperRows]

Returns(value) ==
    /\ pc = "call"
    /\ pc' = "returned"
    /\ ret' = value
    /\ UNCHANGED <<mode, config, run, runs, visible, rows_served, exit_code, cause, pinged,
                   streams, docs, create_calls, ga_data, clock, total_properties,
                   total_documents,
                   accounts_seen, props_left, property_id, datastream_name, request,
                   response, row_i, doc_count, steps, results, summary, before, args>>

call_datastream_name ==
    /\ args.fn = "datastream_name"
    /\ Returns(DatastreamName(args.property_name, args.property_id))

call_doc_id ==
    /\ args.fn = "doc_id"
    /\ Returns(<<DocId(args.a.property_id, args.a), DocId(args.b.property_id, args.b)>>)

call_doc ==
    /\ args.fn = "doc"
    /\ Returns(IF args.input.flow = "fleet"
               THEN FleetDoc(PropertyId(1), DisplayName(1), args.input.row, Now(clock))
               ELSE SingleDoc(Response(SingleDimensions, SingleMetrics, <<args.input.row>>),
                              args.input.row, Now(clock)))

PureNext ==
    \/ call_datastream_name
    \/ call_doc_id
    \/ call_doc

PureSpec == PureInit /\ [][PureNext]_vars

(***************************************************************************)
(* Properties.                                                             *)
(***************************************************************************)
\* Python's None, as a document field would hold it
None == <<"None">>

\* export_property_data has returned for the current property; steps still
\* holds the calls it made
Returned == mode = "fleet" /\ property_id > 0 /\ Len(results) = property_id

Cur == results[property_id]

Has(step) == \E i \in 1..Len(steps) : steps[i] = step

Last(seq) == seq[Len(seq)]

RECURSIVE SumCounts(_)
SumCounts(rs) == IF rs = <<>> THEN 0 ELSE Head(rs).doc_count + SumCounts(Tail(rs))

IndexOf(k) == DatastreamName(DisplayName(k), PropertyId(k))

\* the documents of property k that the store holds
StoredFor(k) == {d \in docs : d.index = IndexOf(k)}

\* every row of the current response is stored under its key
RowsStored ==
    \A i \in 1..Len(response.rows) :
        LET m == FleetDoc(PropertyId(property_id), DisplayName(property_id),
                          response.rows[i], Now(clock))
        IN  /\ m.exc = ""
            /\ \E d \in docs : /\ d.index = datastream_name
                               /\ d.id = DocId(PropertyId(property_id), m.doc)

\* C1 as stated: whichever per-property step fails (provision, fetch, mapping or
\* a store write), the property is recorded with a document count of 0.
C1_AnyStepFailureRecordsZero ==
    (Returned /\ (Has("provision!") \/ Has("fetch!") \/ Has("map!") \/ Has("index!")))
        => Cur.doc_count = 0

\* C1 amended: a property is recorded as failed, with a document count of 0,
\* exactly when its fetch, its mapping or a store write raised (a provisioning
\* failure alone does not make it fail); a property's failure never ends the
\* run, every discovered property is processed before the summary, and the rows
\* of a property that did not fail are stored and stay stored.
C1_FailureIsolated ==
    /\ Returned =>
          /\ Cur.failed <=> (Has("fetch!") \/ Has("map!") \/ Has("index!"))
          /\ Cur.failed => Cur.doc_count = 0
          /\ ~Cur.failed => (Cur.doc_count = Len(response.rows) /\ RowsStored)
    /\ (mode = "fleet" /\ pc = "exit")
          => cause \in {"config", "authentication", "elasticsearch", "discovery"}
    /\ (mode = "fleet" /\ pc \in {"summary", "done"})
          => (Len(results) = visible /\ total_properties = visible)
    /\ \A k \in 1..Len(results) :
          (~results[k].failed /\ results[k].doc_count > 0) => StoredFor(k) # {}

\* C1 witness: the first property failed, the second was still exported
C1_Witness ==
    /\ pc = "done"
    /\ Len(results) = 2
    /\ results[1].failed /\ results[1].doc_count = 0
    /\ ~results[2].failed /\ results[2].doc_count > 0
    /\ StoredFor(2) # {}

\* C2 as stated: a fleet run past the health check ends as failed only when
\* authentication or discovery failed and no property was iterated at all.
C2_FailsOnlyBeforeAnyProperty ==
    (mode = "fleet" /\ pinged /\ pc = "exit")
        => (cause \in {"authentication", "discovery"} /\ total_properties = 0)

\* C2 amended: every fleet run that has passed configuration validation,
\* authentication and the health check ends; it ends in done with a summary and
\* status 0 however many properties failed, or with exit(1) and no summary, and
\* then only because discovery (the list call or a later page of the pager,
\* possibly after properties were processed) failed.
C2_RunEnds ==
    /\ (mode = "fleet" /\ pinged) ~> (pc \in {"done", "exit"})
    /\ []((mode = "fleet" /\ pc = "done") => (summary # <<>> /\ exit_code = 0))
    /\ []((mode = "fleet" /\ pinged /\ pc = "exit")
            => (cause = "discovery" /\ summary = <<>> /\ exit_code = 1))
    /\ []((mode = "fleet" /\ pinged /\ pc \notin {"done", "exit"}) => exit_code = -1)

\* C2 witness: a run in which every property failed reaches done with a summary
C2_Witness ==
    /\ mode = "fleet"
    /\ pc = "done"
    /\ summary # <<>>
    /\ Len(results) = MaxProps
    /\ \A k \in 1..Len(results) : results[k].failed

\* the properties main() can tell to have failed: export_property_data returns
\* 0 for them, and nothing else
ReturnedZero == {k \in 1..Len(results) : results[k].doc_count = 0}

FailedProperties == {k \in 1..Len(results) : results[k].failed}

C4_HealthCheckFirst ==
    /\ (steps # <<>> \/ pc \in {"accounts", "properties", "provision", "rows"}) => pinged
    /\ cause = "elasticsearch" => (pc = "exit" /\ exit_code = 1 /\ docs = {})

\* C5: a run after a run that succeeded, on the same report data, leaves the
\* store with the same document keys and the same number of documents.
C5_RerunKeepsKeys ==
    before.ok => (Keys = before.keys /\ Cardinality(docs) = Cardinality(before.keys))

\* C5 witness: the second run has written every document of the first run again
C5_Witness ==
    /\ mode = "fleet"
    /\ run = 2
    /\ pc = "done"
    /\ before.ok
    /\ Cardinality(before.keys) = MaxRows
    /\ \A d \in docs : d.doc["@timestamp"] = Now(2)
    /\ RunSucceeded

\* C6 as stated: two key-material tuples give the same key exactly when they are
\* the same tuple.
C6_KeyInjective ==
    (pc = "returned" /\ args.fn = "doc_id") => ((ret[1] = ret[2]) <=> (args.a = args.b))

\* C7: when es.indices.exists or create_data_stream raises, the provisioner
\* returns normally: the report is requested next, the rows it returns are
\* mapped and written, and the property is recorded as failed only if one of
\* those later steps raised.
C7_ProvisionNeverFatal ==
    (mode = "fleet" /\ property_id > 0 /\ steps # <<>> /\ steps[1] = "provision!")
        => /\ Len(steps) = 1 => pc = "fetch"
           /\ Len(steps) >= 2 => steps[2] \in {"fetch", "fetch!"}
           /\ Returned =>
                 /\ Cur.step # "provision"
                 /\ Cur.failed <=> Last(steps) \in {"fetch!", "map!", "index!"}
                 /\ (steps[2] = "fetch" /\ response.rows # <<>>) => Len(steps) >= 3
                 /\ ~Cur.failed => (Cur.doc_count = Len(response.rows) /\ RowsStored)

\* C7 witness: provisioning raised and the property's rows were written
C7_Witness ==
    /\ Returned
    /\ steps[1] = "provision!"
    /\ ~Cur.failed
    /\ Cur.doc_count > 0
    /\ RowsStored

ProvisionCalls == {"provision", "provision!"}
FetchCalls == {"fetch", "fetch!"}

Lowercase ==
    {"a", "b", "c", "d", "e", "f", "g", "h", "i", "j", "k", "l", "m", "n", "o", "p", "q",
     "r", "s", "t", "u", "v", "w", "x", "y", "z"}

\* C9 as stated: the destination name holds only lowercase letters, digits and
\* hyphens, and no two hyphens in a row.
C9_NameIsClean ==
    (pc = "returned" /\ args.fn = "datastream_name")
        => /\ \A i \in 1..Len(ret) : ret[i] \in Lowercase \cup Digits \cup {"-"}
           /\ \A i \in 1..(Len(ret) - 1) : ~(ret[i] = "-" /\ ret[i + 1] = "-")

\* the names of the document fields a flow fills from the row
DimensionNames(flow) == IF flow = "fleet" THEN FleetDimensions ELSE SingleDimensions
MetricNames(flow) == IF flow = "fleet" THEN FleetMetrics ELSE SingleMetrics

TimestampField(flow) == "@timestamp"

\* the metric values int() accepts, and those float() accepts as well
IntegerText == {<<>>, <<"4", "2">>}

AcceptedText(flow, j) ==
    IF flow = "single" \/ j = 4 THEN MetricValues ELSE IntegerText

\* C10: for a row whose value counts match the headers, an empty metric value is
\* mapped to the number 0 and never makes the mapping raise (it raises only on a
\* non-empty value its coercion rejects); every metric field of the document is
\* a number and no field is None.
C10_EmptyMetricIsZero ==
    (pc = "returned" /\ args.fn = "doc")
        => LET flow == args.input.flow
               dv == args.input.row.dimension_values
               mv == args.input.row.metric_values
           IN  /\ (\A j \in 1..Len(mv) : mv[j] \in AcceptedText(flow, j)) => ret.exc = ""
               /\ ret.exc # "" => \E j \in 1..Len(mv) : mv[j] # <<>>
               /\ ret.exc = "" =>
                     /\ \A j \in 1..Len(mv) :
                           /\ ret.doc[MetricNames(flow)[j]].exc = ""
                           /\ ret.doc[MetricNames(flow)[j]].kind \in {"int", "float"}
                           /\ mv[j] = <<>> => ret.doc[MetricNames(flow)[j]].v = 0
                           /\ mv[j] = <<"4", "2">> => ret.doc[MetricNames(flow)[j]].v = 42
                     /\ \A i \in 1..Len(dv) :
                           /\ ret.doc[DimensionNames(flow)[i]] = dv[i]
                           /\ ret.doc[DimensionNames(flow)[i]] # None
                     /\ ret.doc[TimestampField(flow)] # None

\* C10 witness: a fleet row with an empty sessions value is mapped, sessions = 0
C10_Witness ==
    /\ pc = "returned"
    /\ args.fn = "doc"
    /\ args.input.flow = "fleet"
    /\ args.input.row.metric_values[6] = <<>>
    /\ args.input.row.metric_values[1] = <<"4", "2">>
    /\ ret.exc = ""
    /\ ret.doc.sessions = Number("int", 0, 0)
    /\ ret.doc.screenPageViews = Number("int", 42, 0)

\* a row that supplies fewer values than the header declares
Malformed(resp, row) ==
    \/ Len(row.dimension_values) < Len(resp.dimension_headers)
    \/ Len(row.metric_values) < Len(resp.metric_headers)

MalformedAt == {i \in 1..Len(response.rows) : Malformed(response, response.rows[i])}

\* the es.index calls of the current property that returned
Written == Cardinality({i \in 1..Len(steps) : steps[i] = "index"})

\* the fields the headers of a flow declare
HeaderFields(flow) ==
    {DimensionNames(flow)[i] : i \in 1..Len(DimensionNames(flow))}
        \cup {MetricNames(flow)[j] : j \in 1..Len(MetricNames(flow))}

\* C11, fleet flow: a property whose report holds a malformed row is recorded as
\* failed, nothing is written for that row or after it, and the run goes on.
C11_FleetRejects ==
    /\ (Returned /\ MalformedAt # {})
          => /\ Cur.failed
             /\ Cur.doc_count = 0
             /\ \A i \in MalformedAt : Written < i
    /\ (mode = "fleet" /\ Has("map!") /\ pc = "exit") => cause = "discovery"

\* C11, single-property flow: a malformed row ends the run as failed, and no
\* stored document lacks a field its header declares.
C11_SingleRejects ==
    /\ (mode = "single" /\ pc = "done") => MalformedAt = {}
    /\ (mode = "single" /\ MalformedAt # {})
          => \A i \in MalformedAt : Written < i
    /\ \A d \in docs : d.index = SingleIndex => HeaderFields("single") \subseteq DOMAIN d.doc

\* C11 as stated: in both flows a row with fewer values than the header declares
\* makes the mapping fail; no document with dropped fields is produced, nothing
\* is written for the row, the property fails and other properties go on.
C11_MalformedRowFails == C11_FleetRejects /\ C11_SingleRejects

\* C12 as stated: a days-to-pull value <= 0 is a configuration error: the run
\* ends in validate_config with exit(1), no report request is built or sent,
\* and the value is not replaced by the default.
C12_NonPositiveWindowRejected ==
    config.days_to_pull <= 0
        => /\ pc # "validate_config" => (pc = "exit" /\ cause = "config")
           /\ request = <<>>
           /\ ~(Has("fetch") \/ Has("fetch!"))

\* a stored document of property k: in its destination, carrying its id
BelongsTo(d, k) == d.index = IndexOf(k) /\ d.doc.property_id = PropertyId(k)

\* one step of a fleet run, as far as the order of the properties goes
C13_Step ==
    mode = "fleet" =>
        /\ property_id' # property_id
              => /\ property_id' = property_id + 1
                 /\ Len(results) = property_id
                 /\ steps' = <<>>
        /\ (steps' # steps /\ steps' # <<>>)
              => /\ property_id' = property_id
                 /\ property_id > 0
                 /\ Len(results) = property_id - 1
        /\ docs' # docs
              => /\ Len(results) = property_id - 1
                 /\ \A d \in docs' \ docs : BelongsTo(d, property_id)
        /\ results' # results
              => /\ results' = Append(results, Last(results'))
                 /\ Last(results').property = property_id
                 /\ Len(results') = property_id

\* C13: the properties are processed one at a time in discovery order: a
\* property's export begins only when the previous property's export has
\* returned (its result, success or failure, is recorded); every fetch,
\* provisioning and write call made in between is a call of that one property,
\* and every document written then belongs to it.
C13_OneAtATime == [][C13_Step]_vars

\* C13 witness: two properties were exported one after the other, both stored
C13_Witness ==
    /\ mode = "fleet"
    /\ pc = "done"
    /\ Len(results) = 2
    /\ \A k \in 1..2 : ~results[k].failed /\ results[k].property = k
    /\ \A k \in 1..2 : \E d \in docs : BelongsTo(d, k)

\* a call of the provisioner for a destination that exists changes nothing
C14_NoOpStep ==
    (pc = "provision" /\ datastream_name \in streams)
        => (streams' = streams /\ docs' = docs /\ create_calls' = create_calls)

\* no create call is issued for a name that exists, and no name is created twice
C14_CreatedOnce ==
    /\ \A i \in 1..Len(create_calls) :
          /\ ~create_calls[i].existed
          /\ create_calls[i].ok
          /\ create_calls[i].name \in streams
    /\ \A i, j \in 1..Len(create_calls) :
          create_calls[i].name = create_calls[j].name => i = j
    /\ (mode = "fleet" /\ Has("provision")) => datastream_name \in streams

RowsDiffer ==
    \A i, j \in 1..Len(response.rows) :
        response.rows[i].dimension_values = response.rows[j].dimension_values => i = j

\* the key the i-th row of the current response is written under
KeyOfRow(i) ==
    DocId(PropertyId(property_id),
          FleetDoc(PropertyId(property_id), DisplayName(property_id),
                   response.rows[i], Now(clock)).doc)

\* C15 as stated: for a property exported without failure into a destination
\* that was empty, from a report whose rows differ in some queried dimension,
\* the returned count equals the number of documents the destination holds, and
\* no two rows were written under the same key.
C15_CountIsStored ==
    (Returned /\ ~Cur.failed /\ Cur.doc_count > 0 /\ RowsDiffer)
        => /\ Cur.doc_count = Cardinality(StoredFor(property_id))
           /\ \A i, j \in 1..Len(response.rows) : KeyOfRow(i) = KeyOfRow(j) => i = j

RECURSIVE SumWritten(_)
SumWritten(rs) == IF rs = <<>> THEN 0 ELSE Head(rs).written + SumWritten(Tail(rs))

\* the properties that failed after some of their rows had been written
PartlyWritten == {k \in FailedProperties : results[k].written > 0}

====
